---- MODULE Spec2Model ----
(***************************************************************************)
(* State-machine model of the chat application in src/chat-ui/chat:        *)
(* the JSON views of views.py, the ChatService / AIService / MCPClient     *)
(* classes of services.py and the tables of models.py.                     *)
(*                                                                         *)
(* A text (Python str) is a sequence of one-character strings, so that     *)
(* strip(), slicing, len() and f-string concatenation are computed.        *)
(* Enumerated values (role, status, provider, tool name) are TLA+ strings; *)
(* Chars gives their characters where the code formats them into a text.   *)
(* Each database statement of a request is one step; requests of different *)
(* workers interleave between statements, as Django runs them without any  *)
(* transaction or lock.                                                    *)
(***************************************************************************)
EXTENDS Integers, Sequences, FiniteSets, TLC

(* ------------------------------ bounds --------------------------------- *)
\* Number of requests served in one behaviour.
MaxRequests == 2
\* Largest number of rows a preloaded session holds (history specification).
MaxPreload == 24
\* Largest number of ChatSession rows (chat_session creates one per request).
MaxSessions == 3

(* ------------------------- program constants --------------------------- *)
\* services.py:234, the slice [:20] of the history query.
HistoryLimit == 20
\* services.py:208, the title is cut at 50 characters.
TitleLimit == 50
\* models.py:126, default of UserPreferences.max_tokens.
DefaultMaxTokens == 1000
\* models.py:127, default of UserPreferences.temperature, in tenths (0.7).
DefaultTemperatureTenths == 7

(* ------------------------------- texts --------------------------------- *)
SystemPrompt ==
    << "Y", "o", "u", " ", "a", "r", "e", " ", "a", " ", "h", "e", "l", "p",
       "f", "u", "l", " ", "A", "I", " ", "a", "s", "s", "i", "s", "t", "a",
       "n", "t", " ", "w", "i", "t", "h", " ", "a", "c", "c", "e", "s", "s",
       " ", "t", "o", " ", "a", " ", "c", "h", "a", "t", " ", "d", "a", "t",
       "a", "s", "t", "o", "r", "e", " ", "v", "i", "a", " ", "M", "C", "P",
       " ", "t", "o", "o", "l", "s", ".", " ", "Y", "o", "u", " ", "c", "a",
       "n", " ", "s", "t", "o", "r", "e", " ", "a", "n", "d", " ", "r", "e",
       "t", "r", "i", "e", "v", "e", " ", "i", "n", "f", "o", "r", "m", "a",
       "t", "i", "o", "n", " ", "u", "s", "i", "n", "g", " ", "K", "V", " ",
       "o", "p", "e", "r", "a", "t", "i", "o", "n", "s", " ", "a", "n", "d",
       " ", "q", "u", "e", "r", "y", " ", "d", "o", "c", "u", "m", "e", "n",
       "t", " ", "c", "o", "l", "l", "e", "c", "t", "i", "o", "n", "s", "." >>
ErrGenPrefix ==
    << "E", "r", "r", "o", "r", " ", "g", "e", "n", "e", "r", "a", "t", "i",
       "n", "g", " ", "r", "e", "s", "p", "o", "n", "s", "e", ":", " " >>
ErrProcPrefix ==
    << "A", "n", " ", "e", "r", "r", "o", "r", " ", "o", "c", "c", "u", "r",
       "r", "e", "d", " ", "w", "h", "i", "l", "e", " ", "p", "r", "o", "c",
       "e", "s", "s", "i", "n", "g", " ", "y", "o", "u", "r", " ", "m", "e",
       "s", "s", "a", "g", "e", ":", " " >>
ProviderPre ==
    << "P", "r", "o", "v", "i", "d", "e", "r", " " >>
ProviderPost ==
    << " ", "n", "o", "t", " ", "a", "v", "a", "i", "l", "a", "b", "l", "e",
       " ", "o", "r", " ", "n", "o", "t", " ", "c", "o", "n", "f", "i", "g",
       "u", "r", "e", "d" >>
OllamaHttpPre ==
    << "O", "l", "l", "a", "m", "a", " ", "H", "T", "T", "P", " " >>
ToolCallPrefix ==
    << "M", "C", "P", " ", "t", "o", "o", "l", " ", "c", "a", "l", "l", ":",
       " " >>
HttpPre ==
    << "H", "T", "T", "P", " " >>
UnknownError ==
    << "U", "n", "k", "n", "o", "w", "n", " ", "e", "r", "r", "o", "r" >>
KeyErrorMessage ==
    << "'", "m", "e", "s", "s", "a", "g", "e", "'" >>
NotNullContent ==
    << "N", "O", "T", " ", "N", "U", "L", "L", " ", "c", "o", "n", "s", "t",
       "r", "a", "i", "n", "t", " ", "f", "a", "i", "l", "e", "d", ":", " ",
       "c", "h", "a", "t", "_", "c", "h", "a", "t", "m", "e", "s", "s", "a",
       "g", "e", ".", "c", "o", "n", "t", "e", "n", "t" >>
NotNullResponse ==
    << "N", "O", "T", " ", "N", "U", "L", "L", " ", "c", "o", "n", "s", "t",
       "r", "a", "i", "n", "t", " ", "f", "a", "i", "l", "e", "d", ":", " ",
       "c", "h", "a", "t", "_", "m", "c", "p", "o", "p", "e", "r", "a", "t",
       "i", "o", "n", ".", "r", "e", "s", "p", "o", "n", "s", "e" >>
NotNullParameters ==
    << "N", "O", "T", " ", "N", "U", "L", "L", " ", "c", "o", "n", "s", "t",
       "r", "a", "i", "n", "t", " ", "f", "a", "i", "l", "e", "d", ":", " ",
       "c", "h", "a", "t", "_", "m", "c", "p", "o", "p", "e", "r", "a", "t",
       "i", "o", "n", ".", "p", "a", "r", "a", "m", "e", "t", "e", "r", "s" >>
JsonDecodeText ==
    << "E", "x", "p", "e", "c", "t", "i", "n", "g", " ", "v", "a", "l", "u",
       "e", ":", " ", "l", "i", "n", "e", " ", "1", " ", "c", "o", "l", "u",
       "m", "n", " ", "1", " ", "(", "c", "h", "a", "r", " ", "0", ")" >>
Http404Text ==
    << "N", "o", " ", "C", "h", "a", "t", "S", "e", "s", "s", "i", "o", "n",
       " ", "m", "a", "t", "c", "h", "e", "s", " ", "t", "h", "e", " ", "g",
       "i", "v", "e", "n", " ", "q", "u", "e", "r", "y", "." >>

EmptyMessageText ==
    << "M", "e", "s", "s", "a", "g", "e", " ", "c", "a", "n", "n", "o", "t",
       " ", "b", "e", " ", "e", "m", "p", "t", "y" >>
ToolRequiredText ==
    << "T", "o", "o", "l", " ", "n", "a", "m", "e", " ", "i", "s", " ", "r",
       "e", "q", "u", "i", "r", "e", "d" >>
Ellipsis == << ".", ".", "." >>
ChatPrefix == << "C", "h", "a", "t", " " >>
EpochDate == << "2", "0", "0", "0", "-", "0", "1", "-", "0", "1", " " >>
ColonSpace == << ":", " " >>
Dash == << " ", "-", " " >>

\* Python None in a slot that otherwise holds a text: a one-element sequence
\* whose element is not a character, so it differs from every text.
NoneText == << "None" >>
\* Python None in a slot that otherwise holds a non-negative integer.
NoneInt == 0 - 1

\* Characters of the enumerated values the code formats into texts.
Chars(s) ==
    CASE s = "openai"  -> << "o", "p", "e", "n", "a", "i" >>
      [] s = "ollama"  -> << "o", "l", "l", "a", "m", "a" >>
      [] s = "success" -> << "s", "u", "c", "c", "e", "s", "s" >>
      [] s = "error"   -> << "e", "r", "r", "o", "r" >>
      [] s = "kv_get"  -> << "k", "v", "_", "g", "e", "t" >>
      [] s = "kv_set"  -> << "k", "v", "_", "s", "e", "t" >>

DigitChar(d) ==
    CASE d = 0 -> "0" [] d = 1 -> "1" [] d = 2 -> "2" [] d = 3 -> "3"
      [] d = 4 -> "4" [] d = 5 -> "5" [] d = 6 -> "6" [] d = 7 -> "7"
      [] d = 8 -> "8" [] d = 9 -> "9"

\* str(n) of a non-negative integer, as an f-string formats a status code.
RECURSIVE IntStr(_)
IntStr(n) ==
    IF n < 10 THEN << DigitChar(n) >>
    ELSE IntStr(n \div 10) \o << DigitChar(n % 10) >>

\* A number below 100 in two digits, as strftime writes %H and %M.
Pad2(n) == << DigitChar(n \div 10), DigitChar(n % 10) >>

\* created_at.strftime('%Y-%m-%d %H:%M') of models.py:33.  The clock counts
\* minutes from 2000-01-01 00:00 and stays within that day.
StrfTime(t) == EpochDate \o Pad2((t \div 60) % 24) \o << ":" >> \o Pad2(t % 60)

\* The characters c for which str.isspace() holds, which str.strip() removes:
\* TAB, LF, VT, FF, CR, FS, GS, RS, US, SPACE, NEL, NBSP, and the spaces and
\* separators above U+00FF.  A character above U+00FF cannot be written in a
\* string of this language; it is written as the name of its code point and,
\* like every character, is one element of a text.
Whitespace ==
    { "\t", "\n", "", "\f", "\r", "", "", "", "", " ", "", " ",
      "U+1680", "U+2000", "U+2001", "U+2002", "U+2003", "U+2004",
      "U+2005", "U+2006", "U+2007", "U+2008", "U+2009", "U+200A",
      "U+2028", "U+2029", "U+202F", "U+205F",
      "U+3000" }

RECURSIVE LStrip(_)
LStrip(t) ==
    IF Len(t) > 0 /\ Head(t) \in Whitespace THEN LStrip(Tail(t)) ELSE t

RECURSIVE RStrip(_)
RStrip(t) ==
    IF Len(t) > 0 /\ t[Len(t)] \in Whitespace
    THEN RStrip(SubSeq(t, 1, Len(t) - 1)) ELSE t

\* Strip as it would be if the view did not strip the text.
StripNothing(t) == t

\* str.strip() of views.py:72.
Strip(t) == RStrip(LStrip(t))

\* A text of n copies of the character c.
Repeat(c, n) == [i \in 1..n |-> c]

(* ------------------------------ inputs --------------------------------- *)
Users == {"u1", "u2"}
SessionIds == {1, 2}
Workers == {"w1", "w2"}

\* Request bodies of send_message: the value of data.get('message', '').
UserTexts ==
    { << >>, << " ", "\r" >>, << "h", "i" >>, << " ", "y", "o", " " >> }
\* Texts around the title limit (50 and 51 characters).
LongTexts == { Repeat("y", TitleLimit), Repeat("x", TitleLimit + 1) }

(* ------------------------------- tables -------------------------------- *)
VARIABLES
    sessions,        \* ChatSession rows, by id
    messages,        \* ChatMessage rows in insertion order; the id is the index
    operations,      \* MCPOperation rows in insertion order; the id is the index
    preferences,     \* UserPreferences rows, by user (only users that have one)
    now,             \* the clock read by auto_now / auto_now_add
    openai_client,   \* AIService.openai_client is set (OPENAI_API_KEY configured)
    provider_calls,  \* number of generate_response calls made so far
    nreq,            \* number of requests received so far
    pc,              \* position of each worker in the request it serves
    loc              \* local variables of the request each worker serves

vars == << sessions, messages, operations, preferences, now, openai_client,
           provider_calls, nreq, pc, loc >>

db == << sessions, messages, operations, preferences >>

\* models.py:6-19, a ChatSession created by chat_session (views.py:49).
NewSession(id, user, t) ==
    [id |-> id, user |-> user, title |-> << >>, created_at |-> t,
     updated_at |-> t, is_active |-> TRUE]

\* models.py:51-70, ChatMessage.objects.create with the field defaults.
\* call is bookkeeping: the serial number of the request that inserted it.
NewMessage(id, session, role, content, status, t, call) ==
    [id |-> id, session |-> session, role |-> role, content |-> content,
     timestamp |-> t, status |-> status, model_used |-> "",
     tokens_used |-> NoneInt, error_message |-> << >>, call |-> call]

\* models.py:122-133, the defaults of a UserPreferences row.
DefaultPreferences(user) ==
    [user |-> user, preferred_ai_provider |-> "openai",
     openai_model |-> "gpt-3.5-turbo", ollama_model |-> "llama2",
     max_tokens |-> DefaultMaxTokens, temperature |-> DefaultTemperatureTenths,
     theme |-> "light", show_timestamps |-> TRUE, show_token_usage |-> FALSE,
     show_mcp_operations |-> FALSE]

\* JSON values: null or an object, given by its set of <<key, value>> pairs.
JsonNull == [json |-> "null", members |-> {}]
JsonObject(members) == [json |-> "object", members |-> members]
EmptyDict == JsonObject({})

\* models.py:99-107, MCPOperation.objects.create of services.py:256-261.
NewOperation(id, message, operation_type, parameters, status, t, call) ==
    [id |-> id, message |-> message, operation_type |-> operation_type,
     parameters |-> parameters, response |-> EmptyDict, status |-> status,
     duration_ms |-> NoneInt, timestamp |-> t, error_details |-> << >>,
     call |-> call]

\* The body of an update_preferences request: the keys present in the JSON
\* object and their values (values of absent keys are not read).
PreferencesUpdate(keys, values) == [keys |-> keys, values |-> values]

NoOperation == NewOperation(0, 0, "", EmptyDict, "", 0, 0)
NoUpdate == PreferencesUpdate({}, DefaultPreferences(""))
NoMessage == NewMessage(0, 0, "", << >>, "", 0, 0)
NoSession == NewSession(0, "", 0)
NoResponse == [status |-> 0, error |-> << >>]

\* Locals of a worker that serves no request.  A local that is unbound or
\* bound to one value (ai_response, result, e) is a sequence of length 0 or 1.
IdleLocals ==
    [kind |-> "none", call |-> 0, user |-> "", session_id |-> 0,
     session |-> NoSession,
     text |-> << >>, user_message |-> << >>,
     preferences |-> DefaultPreferences(""),
     user_msg |-> 0, assistant_msg |-> NoMessage,
     recent_messages |-> << >>, messages |-> << >>,
     ai_response |-> << >>, e |-> << >>,
     tool_name |-> "", arguments |-> EmptyDict,
     system_message |-> NoMessage, operation |-> NoOperation,
     result |-> << >>, data |-> NoUpdate,
     read_messages |-> {}, read_operations |-> {}, title |-> << >>,
     resp |-> NoResponse]

(* ----------------------------- AIService ------------------------------- *)
\* What the upstream completion service does in one call.
\*   kind "completion":   the OpenAI call returns (content may be None,
\*                        usage may be absent: tokens = NoneInt)
\*   kind "api_error":    the OpenAI call raises, str(e) = text
\*   kind "http":         Ollama answers with a status code; for 200 the
\*                        body is {"message": {"content": content}} when
\*                        has_message, another JSON object otherwise
\*   kind "transport":    requests raises a RequestException, str(e) = text
\*   kind "none":         no upstream call is made
Upstream(kind, status, has_message, content, tokens, text) ==
    [kind |-> kind, status |-> status, has_message |-> has_message,
     content |-> content, tokens |-> tokens, text |-> text]

OpenAIUpstream ==
    { Upstream("completion", 200, TRUE, << "o", "k" >>, 9, << >>),
      Upstream("completion", 200, TRUE, NoneText, NoneInt, << >>),
      Upstream("api_error", 0, FALSE, << >>, NoneInt, << "q", "u", "o", "t", "a" >>) }

OllamaUpstream ==
    { Upstream("http", 200, TRUE, << "o", "k" >>, NoneInt, << >>),
      Upstream("http", 200, FALSE, << >>, NoneInt, << >>),
      Upstream("http", 500, FALSE, << >>, NoneInt, << "o", "o", "m" >>),
      Upstream("transport", 0, FALSE, << >>, NoneInt, << "r", "e", "f", "u", "s", "e", "d" >>) }

NoUpstream == Upstream("none", 0, FALSE, << >>, NoneInt, << >>)

\* A call either returns a value or raises an exception whose str() is exc.
Returned(v) == [raised |-> FALSE, value |-> << v >>, exc |-> << >>]
Raised(text) == [raised |-> TRUE, value |-> << >>, exc |-> text]

AiSuccess(content, model, tokens) ==
    [success |-> TRUE, content |-> content, model |-> model,
     tokens_used |-> tokens, error |-> << >>]
AiFailure(error) ==
    [success |-> FALSE, content |-> << >>, model |-> "",
     tokens_used |-> NoneInt, error |-> error]

\* services.py:97-119
GenerateOpenAIResponse(model, up) ==
    IF up.kind = "completion"
    THEN Returned(AiSuccess(up.content, model, up.tokens))
    ELSE Returned(AiFailure(up.text))

\* services.py:121-152
GenerateOllamaResponse(model, up) ==
    IF up.kind = "http"
    THEN IF up.status = 200
         THEN IF up.has_message
              THEN Returned(AiSuccess(up.content, model, NoneInt))
              ELSE Raised(KeyErrorMessage)
         ELSE Returned(AiFailure(OllamaHttpPre \o IntStr(up.status)
                                   \o ColonSpace \o up.text))
    ELSE Returned(AiFailure(up.text))

\* services.py:83-95
GenerateResponse(provider, model, configured, up) ==
    IF provider = "openai" /\ configured
    THEN GenerateOpenAIResponse(model, up)
    ELSE IF provider = "ollama"
         THEN GenerateOllamaResponse(model, up)
         ELSE Returned(AiFailure(ProviderPre \o Chars(provider) \o ProviderPost))

\* The upstream behaviours possible for the branch generate_response takes.
UpstreamFor(provider, configured) ==
    IF provider = "openai" /\ configured THEN OpenAIUpstream
    ELSE IF provider = "ollama" THEN OllamaUpstream
         ELSE { NoUpstream }

(* ----------------------------- ChatService ----------------------------- *)
\* services.py:246-251
GetModelForProvider(user_preferences) ==
    IF user_preferences.preferred_ai_provider = "openai"
    THEN user_preferences.openai_model
    ELSE user_preferences.ollama_model

\* services.py:208
TitleFor(user_message) ==
    IF Len(user_message) > TitleLimit
    THEN SubSeq(user_message, 1, TitleLimit) \o Ellipsis
    ELSE user_message

\* The ids of the rows the filter of services.py:232-234 selects.
CompletedOf(sid) ==
    { i \in 1..Len(messages) :
        messages[i].session = sid /\ messages[i].status = "completed" }

\* order_by('-timestamp'): every sequence of the ids of S with non-increasing
\* timestamps (the database orders rows of equal timestamp as it likes).
RECURSIVE OrderByTimestampDesc(_)
OrderByTimestampDesc(S) ==
    IF S = {} THEN { << >> }
    ELSE LET latest == { i \in S : \A j \in S :
                             messages[j].timestamp <= messages[i].timestamp }
         IN UNION { { << i >> \o rest : rest \in OrderByTimestampDesc(S \ {i}) }
                    : i \in latest }

\* Take as it would be if the slice kept the other end of the query result.
TakeOldest(s, n) ==
    SubSeq(s, IF Len(s) < n THEN 1 ELSE Len(s) - n + 1, Len(s))

\* The slice [:n] of a sequence.
Take(s, n) == SubSeq(s, 1, IF Len(s) < n THEN Len(s) ELSE n)

\* Reversed as it would be if the reversal of services.py:236 were missing.
NotReversed(s) == s

\* list(reversed(s))
Reversed(s) == [i \in 1..Len(s) |-> s[Len(s) + 1 - i]]

\* services.py:232-236, the possible values of recent_messages (row ids).
RecentMessages(sid) ==
    { Reversed(Take(q, HistoryLimit)) : q \in OrderByTimestampDesc(CompletedOf(sid)) }

\* services.py:223-244, the list handed to the provider.
BuildConversationHistory(recent) ==
    << [role |-> "system", content |-> SystemPrompt] >>
    \o [i \in 1..Len(recent) |->
          [role |-> messages[recent[i]].role,
           content |-> messages[recent[i]].content]]

\* ApplyAiResponse as it would be if line 200 were missing.
ApplyAiResponseNoErrorMessage(assistant_msg, ai_response) ==
    IF ai_response.success
    THEN [assistant_msg EXCEPT !.content = ai_response.content,
                               !.model_used = ai_response.model,
                               !.tokens_used = ai_response.tokens_used,
                               !.status = "completed"]
    ELSE [assistant_msg EXCEPT !.content = ErrGenPrefix \o ai_response.error,
                               !.status = "error"]

\* services.py:193-201, the fields set on assistant_msg from ai_response.
ApplyAiResponse(assistant_msg, ai_response) ==
    IF ai_response.success
    THEN [assistant_msg EXCEPT !.content = ai_response.content,
                               !.model_used = ai_response.model,
                               !.tokens_used = ai_response.tokens_used,
                               !.status = "completed"]
    ELSE [assistant_msg EXCEPT !.content = ErrGenPrefix \o ai_response.error,
                               !.error_message = ai_response.error,
                               !.status = "error"]

\* ApplyException as it would be if line 217 were missing.
ApplyExceptionKeepsStatus(assistant_msg, e) ==
    [assistant_msg EXCEPT !.content = ErrProcPrefix \o e,
                          !.error_message = e]

\* ApplyException as it would be if line 216 were missing.
ApplyExceptionNoErrorMessage(assistant_msg, e) ==
    [assistant_msg EXCEPT !.content = ErrProcPrefix \o e,
                          !.status = "error"]

\* services.py:215-217, the fields set by the exception handler.
ApplyException(assistant_msg, e) ==
    [assistant_msg EXCEPT !.content = ErrProcPrefix \o e,
                          !.error_message = e,
                          !.status = "error"]

\* Model.save() of a ChatMessage: the NOT NULL column content (models.py:54)
\* rejects None with an IntegrityError.
MessageSaveRaises(msg) == msg.content = NoneText

(* ------------------------------- Init ---------------------------------- *)
\* The deployments a behaviour starts from: the OpenAI key is configured or
\* not and u1 has no preferences row yet, or u1 has chosen the local provider
\* (update_preferences with {"preferred_ai_provider": "ollama"}).
Deployments ==
    { [openai_client |-> TRUE, preferences |-> << >>],
      [openai_client |-> FALSE, preferences |-> << >>],
      [openai_client |-> FALSE, preferences |->
          ("u1" :> [DefaultPreferences("u1") EXCEPT
                       !.preferred_ai_provider = "ollama"])] }

\* Two users have each opened one new chat (views.py:49); nothing else is
\* stored yet.
Init ==
    /\ sessions = [s \in SessionIds |->
                     NewSession(s, IF s = 1 THEN "u1" ELSE "u2", s - 1)]
    /\ messages = << >>
    /\ operations = << >>
    /\ now = 2
    /\ \E d \in Deployments :
          /\ openai_client = d.openai_client
          /\ preferences = d.preferences
    /\ provider_calls = 0
    /\ nreq = 0
    /\ pc = [w \in Workers |-> "idle"]
    /\ loc = [w \in Workers |-> IdleLocals]

(* --------------------------- send_message ------------------------------ *)
\* SessionFound as it would be if the query did not filter on the user.
SessionFoundById(sid, user) == sid \in DOMAIN sessions

\* get_object_or_404(ChatSession, id=session_id, user=request.user)
SessionFound(sid, user) ==
    sid \in DOMAIN sessions /\ sessions[sid].user = user

\* A worker takes a request when it serves none.
Free(w) == pc[w] \in {"idle", "done"}

\* views.py:68-75 and 102-104: load the session, parse and validate the body.
\* Http404 is an Exception, so the view's handler turns it into a 500.
SendBegin(w, user, sid, text) ==
    /\ Free(w)
    /\ nreq < MaxRequests
    /\ nreq' = nreq + 1
    /\ LET base == [IdleLocals EXCEPT !.kind = "send", !.call = nreq + 1,
                                      !.user = user, !.session_id = sid,
                                      !.text = text,
                                      !.user_message = Strip(text)]
       IN IF ~SessionFound(sid, user)
          THEN /\ pc' = [pc EXCEPT ![w] = "done"]
               /\ loc' = [loc EXCEPT ![w] =
                     [base EXCEPT !.resp = [status |-> 500, error |-> Http404Text]]]
          ELSE IF base.user_message = << >>
          THEN /\ pc' = [pc EXCEPT ![w] = "done"]
               /\ loc' = [loc EXCEPT ![w] =
                     [base EXCEPT !.session = sessions[sid],
                                  !.resp = [status |-> 400, error |-> EmptyMessageText]]]
          ELSE /\ pc' = [pc EXCEPT ![w] = "send_prefs"]
               /\ loc' = [loc EXCEPT ![w] = [base EXCEPT !.session = sessions[sid]]]
    /\ UNCHANGED << db, now, openai_client, provider_calls >>

\* UserPreferences.objects.get_or_create(user=request.user)
GetOrCreatePreferences(user) ==
    IF user \in DOMAIN preferences
    THEN preferences
    ELSE preferences @@ (user :> DefaultPreferences(user))

\* views.py:78
SendGetPreferences(w) ==
    /\ pc[w] = "send_prefs"
    /\ preferences' = GetOrCreatePreferences(loc[w].user)
    /\ loc' = [loc EXCEPT ![w].preferences = preferences'[loc[w].user]]
    /\ pc' = [pc EXCEPT ![w] = "create_user"]
    /\ UNCHANGED << sessions, messages, operations, now, openai_client,
                    provider_calls, nreq >>

\* services.py:165-170
CreateUserMessage(w) ==
    /\ pc[w] = "create_user"
    /\ messages' = Append(messages,
          NewMessage(Len(messages) + 1, loc[w].session.id, "user",
                     loc[w].user_message, "completed", now, loc[w].call))
    /\ now' = now + 1
    /\ loc' = [loc EXCEPT ![w].user_msg = Len(messages) + 1]
    /\ pc' = [pc EXCEPT ![w] = "create_assistant"]
    /\ UNCHANGED << sessions, operations, preferences, openai_client,
                    provider_calls, nreq >>

\* services.py:173-178
CreateAssistantMessage(w) ==
    /\ pc[w] = "create_assistant"
    /\ LET row == NewMessage(Len(messages) + 1, loc[w].session.id, "assistant",
                             << >>, "processing", now, loc[w].call)
       IN /\ messages' = Append(messages, row)
          /\ loc' = [loc EXCEPT ![w].assistant_msg = row]
    /\ now' = now + 1
    /\ pc' = [pc EXCEPT ![w] = "generate"]
    /\ UNCHANGED << sessions, operations, preferences, openai_client,
                    provider_calls, nreq >>

\* services.py:182-201: read the history, call the provider and set the
\* fields of assistant_msg; an exception goes to the handler of line 213.
Generate(w) ==
    /\ pc[w] = "generate"
    /\ \E recent \in RecentMessages(loc[w].session.id) :
       \E up \in UpstreamFor(loc[w].preferences.preferred_ai_provider, openai_client) :
          LET r == GenerateResponse(loc[w].preferences.preferred_ai_provider,
                                    GetModelForProvider(loc[w].preferences),
                                    openai_client, up)
          IN IF r.raised
             THEN /\ loc' = [loc EXCEPT ![w].recent_messages = recent,
                                        ![w].messages = BuildConversationHistory(recent),
                                        ![w].e = << r.exc >>]
                  /\ pc' = [pc EXCEPT ![w] = "except"]
             ELSE /\ loc' = [loc EXCEPT ![w].recent_messages = recent,
                                        ![w].messages = BuildConversationHistory(recent),
                                        ![w].ai_response = r.value,
                                        ![w].assistant_msg =
                                            ApplyAiResponse(@, r.value[1])]
                  /\ pc' = [pc EXCEPT ![w] = "save_assistant"]
    /\ provider_calls' = provider_calls + 1
    /\ UNCHANGED << db, now, openai_client, nreq >>

\* services.py:203, assistant_msg.save() writes every column of the row.
SaveAssistantMessage(w) ==
    /\ pc[w] = "save_assistant"
    /\ IF MessageSaveRaises(loc[w].assistant_msg)
       THEN /\ loc' = [loc EXCEPT ![w].e = << NotNullContent >>]
            /\ pc' = [pc EXCEPT ![w] = "except"]
            /\ UNCHANGED messages
       ELSE /\ messages' = [messages EXCEPT ![loc[w].assistant_msg.id] =
                                               loc[w].assistant_msg]
            /\ pc' = [pc EXCEPT ![w] = "save_session"]
            /\ UNCHANGED loc
    /\ UNCHANGED << sessions, operations, preferences, now, openai_client,
                    provider_calls, nreq >>

\* services.py:206-208, the fields set on the loaded session object.
TouchSession(session, assistant_msg, user_message) ==
    [session EXCEPT !.updated_at = assistant_msg.timestamp,
                    !.title = IF session.title = << >>
                              THEN TitleFor(user_message) ELSE session.title]

\* ChatSession.save(): auto_now sets updated_at, then every column is written.
SessionSave(session, t) == [session EXCEPT !.updated_at = t]

\* services.py:206-211 and views.py:85-100
SaveSession(w) ==
    /\ pc[w] = "save_session"
    /\ LET session == SessionSave(TouchSession(loc[w].session, loc[w].assistant_msg,
                                               loc[w].user_message), now)
       IN /\ sessions' = [sessions EXCEPT ![session.id] = session]
          /\ loc' = [loc EXCEPT ![w].session = session,
                                ![w].resp = [status |-> 200, error |-> << >>]]
    /\ now' = now + 1
    /\ pc' = [pc EXCEPT ![w] = "done"]
    /\ UNCHANGED << messages, operations, preferences, openai_client,
                    provider_calls, nreq >>

\* services.py:213-219 and views.py:85-100
HandleException(w) ==
    /\ pc[w] = "except"
    /\ LET msg == ApplyException(loc[w].assistant_msg, loc[w].e[1])
       IN /\ messages' = [messages EXCEPT ![msg.id] = msg]
          /\ loc' = [loc EXCEPT ![w].assistant_msg = msg,
                                ![w].resp = [status |-> 200, error |-> << >>]]
    /\ pc' = [pc EXCEPT ![w] = "done"]
    /\ UNCHANGED << sessions, operations, preferences, now, openai_client,
                    provider_calls, nreq >>

(* ------------------------------ MCPClient ------------------------------ *)
\* What the tool server does in one call.
\*   kind "http":      it answers with a status code; for 200 the body is
\*                     the JSON value body when is_json, unparsable otherwise;
\*                     for other codes text is response.text
\*   kind "transport": requests raises a RequestException, str(e) = text
\* json_error_is_request_exception: whether the JSONDecodeError raised by
\* response.json() derives from RequestException (requests >= 2.27) or is a
\* plain ValueError (older releases).
ToolUpstream(kind, status, is_json, body, text, libnew) ==
    [kind |-> kind, status |-> status, is_json |-> is_json, body |-> body,
     text |-> text, json_error_is_request_exception |-> libnew]

ToolUpstreams ==
    { ToolUpstream("http", 200, TRUE, JsonObject({<< "value", "v" >>}), << >>, TRUE),
      ToolUpstream("http", 200, TRUE, JsonNull, << >>, TRUE),
      ToolUpstream("http", 200, FALSE, JsonNull, << >>, TRUE),
      ToolUpstream("http", 200, FALSE, JsonNull, << >>, FALSE),
      ToolUpstream("http", 500, FALSE, JsonNull, << "b", "o", "o", "m" >>, TRUE),
      ToolUpstream("transport", 0, FALSE, JsonNull,
                   << "r", "e", "f", "u", "s", "e", "d" >>, TRUE) }

\* The measured durations (milliseconds).
Durations == {12}

\* The dictionaries call_tool returns; has_data / has_error say which of the
\* keys 'data' and 'error' the dictionary has.
ToolSuccess(data, duration_ms) ==
    [success |-> TRUE, has_data |-> TRUE, data |-> data, has_error |-> FALSE,
     error |-> << >>, duration_ms |-> duration_ms]
ToolFailure(error, duration_ms) ==
    [success |-> FALSE, has_data |-> FALSE, data |-> JsonNull,
     has_error |-> TRUE, error |-> error, duration_ms |-> duration_ms]

\* services.py:19-60
CallTool(up, duration_ms) ==
    IF up.kind = "http"
    THEN IF up.status = 200
         THEN IF up.is_json
              THEN Returned(ToolSuccess(up.body, duration_ms))
              ELSE IF up.json_error_is_request_exception
                   THEN Returned(ToolFailure(JsonDecodeText, duration_ms))
                   ELSE Raised(JsonDecodeText)
         ELSE Returned(ToolFailure(HttpPre \o IntStr(up.status) \o ColonSpace
                                     \o up.text, duration_ms))
    ELSE Returned(ToolFailure(up.text, duration_ms))

(* ------------------------ ChatService.call_mcp_tool -------------------- *)
\* dict.get(key, default) of services.py:269 and 276.
GetData(result) == IF result.has_data THEN result.data ELSE EmptyDict
GetError(result) == IF result.has_error THEN result.error ELSE UnknownError

\* ApplyToolResult as it would be if line 276 were missing.
ApplyToolResultNoDetails(operation, result) ==
    LET filled == [operation EXCEPT !.response = GetData(result),
                                    !.duration_ms = result.duration_ms]
    IN IF result.success
       THEN [filled EXCEPT !.status = "success"]
       ELSE [filled EXCEPT !.status = "error"]

\* services.py:269-276, the fields set on operation from the result.
ApplyToolResult(operation, result) ==
    LET filled == [operation EXCEPT !.response = GetData(result),
                                    !.duration_ms = result.duration_ms]
    IN IF result.success
       THEN [filled EXCEPT !.status = "success"]
       ELSE [filled EXCEPT !.status = "error",
                           !.error_details = GetError(result)]

\* services.py:283-284, the fields set by the exception handler.
ApplyToolException(operation, e) ==
    [operation EXCEPT !.status = "error", !.error_details = e]

\* Writing an MCPOperation row: the NOT NULL JSON columns parameters and
\* response (models.py:102-103) reject None with an IntegrityError.
OperationSaveRaises(operation) ==
    operation.parameters = JsonNull \/ operation.response = JsonNull
OperationSaveError(operation) ==
    IF operation.parameters = JsonNull THEN NotNullParameters ELSE NotNullResponse

\* Tool names of the request bodies; "" is an absent (or empty) tool_name.
ToolNames == {"kv_get", ""}
\* data.get('arguments', {}) of the request bodies: absent, an object, null.
ToolArguments == { EmptyDict, JsonObject({<< "key", "x" >>}), JsonNull }

\* views.py:137-145 and 174-176
ToolBegin(w, user, sid, tool_name, arguments) ==
    /\ Free(w)
    /\ nreq < MaxRequests
    /\ nreq' = nreq + 1
    /\ LET base == [IdleLocals EXCEPT !.kind = "tool", !.call = nreq + 1,
                                      !.user = user, !.session_id = sid,
                                      !.tool_name = tool_name,
                                      !.arguments = arguments]
       IN IF ~SessionFound(sid, user)
          THEN /\ pc' = [pc EXCEPT ![w] = "done"]
               /\ loc' = [loc EXCEPT ![w] =
                     [base EXCEPT !.resp = [status |-> 500, error |-> Http404Text]]]
          ELSE IF tool_name = ""
          THEN /\ pc' = [pc EXCEPT ![w] = "done"]
               /\ loc' = [loc EXCEPT ![w] =
                     [base EXCEPT !.session = sessions[sid],
                                  !.resp = [status |-> 400, error |-> ToolRequiredText]]]
          ELSE /\ pc' = [pc EXCEPT ![w] = "tool_message"]
               /\ loc' = [loc EXCEPT ![w] = [base EXCEPT !.session = sessions[sid]]]
    /\ UNCHANGED << db, now, openai_client, provider_calls >>

\* views.py:148-153
ToolCreateMessage(w) ==
    /\ pc[w] = "tool_message"
    /\ LET row == NewMessage(Len(messages) + 1, loc[w].session.id, "system",
                             ToolCallPrefix \o Chars(loc[w].tool_name),
                             "processing", now, loc[w].call)
       IN /\ messages' = Append(messages, row)
          /\ loc' = [loc EXCEPT ![w].system_message = row]
    /\ now' = now + 1
    /\ pc' = [pc EXCEPT ![w] = "tool_operation"]
    /\ UNCHANGED << sessions, operations, preferences, openai_client,
                    provider_calls, nreq >>

\* services.py:256-261; an IntegrityError here is outside the try block of
\* call_mcp_tool and reaches the handler of the view (views.py:174-176).
ToolCreateOperation(w) ==
    /\ pc[w] = "tool_operation"
    /\ LET row == NewOperation(Len(operations) + 1, loc[w].system_message.id,
                               loc[w].tool_name, loc[w].arguments, "success",
                               now, loc[w].call)
       IN IF OperationSaveRaises(row)
          THEN /\ loc' = [loc EXCEPT ![w].e = << OperationSaveError(row) >>,
                                     ![w].resp = [status |-> 500,
                                                  error |-> OperationSaveError(row)]]
               /\ pc' = [pc EXCEPT ![w] = "done"]
               /\ UNCHANGED << operations, now >>
          ELSE /\ operations' = Append(operations, row)
               /\ loc' = [loc EXCEPT ![w].operation = row]
               /\ now' = now + 1
               /\ pc' = [pc EXCEPT ![w] = "tool_call"]
    /\ UNCHANGED << sessions, messages, preferences, openai_client,
                    provider_calls, nreq >>

\* services.py:265-276
ToolCall(w) ==
    /\ pc[w] = "tool_call"
    /\ \E up \in ToolUpstreams, d \in Durations :
          LET r == CallTool(up, d)
          IN IF r.raised
             THEN /\ loc' = [loc EXCEPT ![w].e = << r.exc >>]
                  /\ pc' = [pc EXCEPT ![w] = "tool_except"]
             ELSE /\ loc' = [loc EXCEPT ![w].result = r.value,
                                        ![w].operation = ApplyToolResult(@, r.value[1])]
                  /\ pc' = [pc EXCEPT ![w] = "tool_save"]
    /\ UNCHANGED << db, now, openai_client, provider_calls, nreq >>

\* services.py:278-279
ToolSaveOperation(w) ==
    /\ pc[w] = "tool_save"
    /\ IF OperationSaveRaises(loc[w].operation)
       THEN /\ loc' = [loc EXCEPT ![w].e = << OperationSaveError(loc[w].operation) >>]
            /\ pc' = [pc EXCEPT ![w] = "tool_except"]
            /\ UNCHANGED operations
       ELSE /\ operations' = [operations EXCEPT ![loc[w].operation.id] =
                                                   loc[w].operation]
            /\ pc' = [pc EXCEPT ![w] = "tool_update"]
            /\ UNCHANGED loc
    /\ UNCHANGED << sessions, messages, preferences, now, openai_client,
                    provider_calls, nreq >>

\* services.py:281-286; a second IntegrityError leaves call_mcp_tool and
\* reaches the handler of the view (views.py:174-176).
ToolHandleException(w) ==
    /\ pc[w] = "tool_except"
    /\ LET operation == ApplyToolException(loc[w].operation, loc[w].e[1])
       IN IF OperationSaveRaises(operation)
          THEN /\ loc' = [loc EXCEPT ![w].operation = operation,
                                     ![w].e = << OperationSaveError(operation) >>,
                                     ![w].resp = [status |-> 500,
                                                  error |-> OperationSaveError(operation)]]
               /\ pc' = [pc EXCEPT ![w] = "done"]
               /\ UNCHANGED operations
          ELSE /\ operations' = [operations EXCEPT ![operation.id] = operation]
               /\ loc' = [loc EXCEPT ![w].operation = operation]
               /\ pc' = [pc EXCEPT ![w] = "tool_update"]
    /\ UNCHANGED << sessions, messages, preferences, now, openai_client,
                    provider_calls, nreq >>

\* ApplyOperation as it would be if line 161 were missing.
ApplyOperationKeepsStatus(system_message, tool_name, operation) ==
    [system_message EXCEPT
        !.content = ToolCallPrefix \o Chars(tool_name) \o Dash
                      \o Chars(operation.status),
        !.error_message = IF operation.error_details # << >>
                          THEN operation.error_details
                          ELSE system_message.error_message]

\* views.py:160-163, the fields set on system_message.
ApplyOperation(system_message, tool_name, operation) ==
    [system_message EXCEPT
        !.content = ToolCallPrefix \o Chars(tool_name) \o Dash
                      \o Chars(operation.status),
        !.status = IF operation.status = "success" THEN "completed" ELSE "error",
        !.error_message = IF operation.error_details # << >>
                          THEN operation.error_details
                          ELSE system_message.error_message]

\* views.py:160-172
ToolUpdateMessage(w) ==
    /\ pc[w] = "tool_update"
    /\ LET msg == ApplyOperation(loc[w].system_message, loc[w].tool_name,
                                 loc[w].operation)
       IN /\ messages' = [messages EXCEPT ![msg.id] = msg]
          /\ loc' = [loc EXCEPT ![w].system_message = msg,
                                ![w].resp = [status |-> 200,
                                             error |-> loc[w].operation.error_details]]
    /\ pc' = [pc EXCEPT ![w] = "done"]
    /\ UNCHANGED << sessions, operations, preferences, now, openai_client,
                    provider_calls, nreq >>

(* -------------------------- update_preferences ------------------------- *)
\* views.py:227-244, one test per field.
ApplyUpdate(p, data) ==
    [user |-> p.user,
     preferred_ai_provider |->
        IF "preferred_ai_provider" \in data.keys
        THEN data.values.preferred_ai_provider ELSE p.preferred_ai_provider,
     openai_model |->
        IF "openai_model" \in data.keys
        THEN data.values.openai_model ELSE p.openai_model,
     ollama_model |->
        IF "ollama_model" \in data.keys
        THEN data.values.ollama_model ELSE p.ollama_model,
     max_tokens |->
        IF "max_tokens" \in data.keys
        THEN data.values.max_tokens ELSE p.max_tokens,
     temperature |->
        IF "temperature" \in data.keys
        THEN data.values.temperature ELSE p.temperature,
     theme |->
        IF "theme" \in data.keys THEN data.values.theme ELSE p.theme,
     show_timestamps |->
        IF "show_timestamps" \in data.keys
        THEN data.values.show_timestamps ELSE p.show_timestamps,
     show_token_usage |->
        IF "show_token_usage" \in data.keys
        THEN data.values.show_token_usage ELSE p.show_token_usage,
     show_mcp_operations |->
        IF "show_mcp_operations" \in data.keys
        THEN data.values.show_mcp_operations ELSE p.show_mcp_operations]

PreferenceFields ==
    { "preferred_ai_provider", "openai_model", "ollama_model", "max_tokens",
      "temperature", "theme", "show_timestamps", "show_token_usage",
      "show_mcp_operations" }

\* The value of the field f of a preferences row.
Field(p, f) ==
    CASE f = "preferred_ai_provider" -> << p.preferred_ai_provider >>
      [] f = "openai_model" -> << p.openai_model >>
      [] f = "ollama_model" -> << p.ollama_model >>
      [] f = "max_tokens" -> << p.max_tokens >>
      [] f = "temperature" -> << p.temperature >>
      [] f = "theme" -> << p.theme >>
      [] f = "show_timestamps" -> << p.show_timestamps >>
      [] f = "show_token_usage" -> << p.show_token_usage >>
      [] f = "show_mcp_operations" -> << p.show_mcp_operations >>

\* The request bodies of update_preferences.
PreferenceUpdates ==
    { PreferencesUpdate({"theme"},
          [DefaultPreferences("") EXCEPT !.theme = "dark"]),
      PreferencesUpdate({"max_tokens", "temperature"},
          [DefaultPreferences("") EXCEPT !.max_tokens = 500, !.temperature = 2]),
      PreferencesUpdate({"preferred_ai_provider", "show_token_usage"},
          [DefaultPreferences("") EXCEPT !.preferred_ai_provider = "ollama",
                                         !.show_token_usage = TRUE]),
      PreferencesUpdate({}, DefaultPreferences("")) }

\* The request body of update_preferences used where ownership is checked.
OwnUpdates ==
    { PreferencesUpdate({"theme"},
          [DefaultPreferences("") EXCEPT !.theme = "dark"]) }

\* views.py:222-244: parse the body, get or create the row, set the fields
\* named in the body on the loaded object.
PreferencesBegin(w, user, data) ==
    /\ Free(w)
    /\ nreq < MaxRequests
    /\ nreq' = nreq + 1
    /\ preferences' = GetOrCreatePreferences(user)
    /\ loc' = [loc EXCEPT ![w] =
          [IdleLocals EXCEPT !.kind = "prefs", !.call = nreq + 1, !.user = user,
                             !.data = data,
                             !.preferences = ApplyUpdate(preferences'[user], data)]]
    /\ pc' = [pc EXCEPT ![w] = "prefs_save"]
    /\ UNCHANGED << sessions, messages, operations, now, openai_client,
                    provider_calls >>

\* views.py:246-248, preferences.save() writes every column of the row.
PreferencesSave(w) ==
    /\ pc[w] = "prefs_save"
    /\ preferences' = [preferences EXCEPT ![loc[w].user] = loc[w].preferences]
    /\ loc' = [loc EXCEPT ![w].resp = [status |-> 200, error |-> << >>]]
    /\ pc' = [pc EXCEPT ![w] = "done"]
    /\ UNCHANGED << sessions, messages, operations, now, openai_client,
                    provider_calls, nreq >>

(* ---------------------------- delete_session --------------------------- *)
\* views.py:259-260 and 266-268: load the session; Http404 becomes a 500.
DeleteBegin(w, user, sid) ==
    /\ Free(w)
    /\ nreq < MaxRequests
    /\ nreq' = nreq + 1
    /\ LET base == [IdleLocals EXCEPT !.kind = "delete", !.call = nreq + 1,
                                      !.user = user, !.session_id = sid]
       IN IF ~SessionFound(sid, user)
          THEN /\ pc' = [pc EXCEPT ![w] = "done"]
               /\ loc' = [loc EXCEPT ![w] =
                     [base EXCEPT !.resp = [status |-> 500, error |-> Http404Text]]]
          ELSE /\ pc' = [pc EXCEPT ![w] = "delete_save"]
               /\ loc' = [loc EXCEPT ![w] = [base EXCEPT !.session = sessions[sid]]]
    /\ UNCHANGED << db, now, openai_client, provider_calls >>

\* views.py:261, the field set on the loaded session object.
Deactivate(session) == [session EXCEPT !.is_active = FALSE]

\* views.py:261-264, session.save() writes every column of the row.
DeleteSave(w) ==
    /\ pc[w] = "delete_save"
    /\ LET session == SessionSave(Deactivate(loc[w].session), now)
       IN /\ sessions' = [sessions EXCEPT ![session.id] = session]
          /\ loc' = [loc EXCEPT ![w].session = session,
                                ![w].resp = [status |-> 200, error |-> << >>]]
    /\ now' = now + 1
    /\ pc' = [pc EXCEPT ![w] = "done"]
    /\ UNCHANGED << messages, operations, preferences, openai_client,
                    provider_calls, nreq >>

(* ------------------ session_history, session_operations ---------------- *)
\* session.messages of views.py:111: the ids of the messages of a session.
MessagesOf(sid) ==
    { i \in 1..Len(messages) : messages[i].session = sid }

\* MCPOperation.objects.filter(message__session=session) of views.py:194-196.
OperationsOf(sid) ==
    { i \in 1..Len(operations) :
        messages[operations[i].message].session = sid }

\* models.py:30, self.messages.filter(role='user').first() under the ordering
\* ['timestamp'] of ChatMessage.Meta: the ids of the rows it may return.
FirstUserMessages(sid) ==
    LET S == { i \in MessagesOf(sid) : messages[i].role = "user" }
    IN { i \in S : \A j \in S : messages[i].timestamp <= messages[j].timestamp }

\* models.py:26-33, get_title of a loaded session when the title is empty:
\* the values it may return.
TitleFromMessages(session) ==
    IF FirstUserMessages(session.id) = {}
    THEN { ChatPrefix \o StrfTime(session.created_at) }
    ELSE { TitleFor(messages[i].content) : i \in FirstUserMessages(session.id) }

\* views.py:107-109; get_object_or_404 is outside any handler: HTTP 404.
SessionHistory(w, user, sid) ==
    /\ Free(w)
    /\ nreq < MaxRequests
    /\ nreq' = nreq + 1
    /\ LET base == [IdleLocals EXCEPT !.kind = "history", !.call = nreq + 1,
                                      !.user = user, !.session_id = sid]
       IN IF ~SessionFound(sid, user)
          THEN /\ pc' = [pc EXCEPT ![w] = "done"]
               /\ loc' = [loc EXCEPT ![w] =
                     [base EXCEPT !.resp = [status |-> 404, error |-> Http404Text]]]
          ELSE /\ pc' = [pc EXCEPT ![w] = "history_messages"]
               /\ loc' = [loc EXCEPT ![w] = [base EXCEPT !.session = sessions[sid]]]
    /\ UNCHANGED << db, now, openai_client, provider_calls >>

\* views.py:111-124, the query runs when the loop starts; models.py:28-29,
\* get_title returns a title that is set without a query.
SessionHistoryMessages(w) ==
    /\ pc[w] = "history_messages"
    /\ IF loc[w].session.title # << >>
       THEN /\ pc' = [pc EXCEPT ![w] = "done"]
            /\ loc' = [loc EXCEPT ![w].read_messages = MessagesOf(loc[w].session.id),
                                  ![w].title = loc[w].session.title,
                                  ![w].resp = [status |-> 200, error |-> << >>]]
       ELSE /\ pc' = [pc EXCEPT ![w] = "history_title"]
            /\ loc' = [loc EXCEPT ![w].read_messages = MessagesOf(loc[w].session.id)]
    /\ UNCHANGED << db, now, openai_client, provider_calls, nreq >>

\* views.py:126-130 and models.py:30-33, get_title of a session loaded
\* without a title.
SessionHistoryTitle(w) ==
    /\ pc[w] = "history_title"
    /\ \E title \in TitleFromMessages(loc[w].session) :
          loc' = [loc EXCEPT ![w].title = title,
                             ![w].resp = [status |-> 200, error |-> << >>]]
    /\ pc' = [pc EXCEPT ![w] = "done"]
    /\ UNCHANGED << db, now, openai_client, provider_calls, nreq >>

\* views.py:190-192; get_object_or_404 is outside any handler: HTTP 404.
SessionOperations(w, user, sid) ==
    /\ Free(w)
    /\ nreq < MaxRequests
    /\ nreq' = nreq + 1
    /\ LET base == [IdleLocals EXCEPT !.kind = "operations", !.call = nreq + 1,
                                      !.user = user, !.session_id = sid]
       IN IF ~SessionFound(sid, user)
          THEN /\ pc' = [pc EXCEPT ![w] = "done"]
               /\ loc' = [loc EXCEPT ![w] =
                     [base EXCEPT !.resp = [status |-> 404, error |-> Http404Text]]]
          ELSE /\ pc' = [pc EXCEPT ![w] = "operations_read"]
               /\ loc' = [loc EXCEPT ![w] = [base EXCEPT !.session = sessions[sid]]]
    /\ UNCHANGED << db, now, openai_client, provider_calls >>

\* views.py:194-214, the query runs when the loop starts.
SessionOperationsRead(w) ==
    /\ pc[w] = "operations_read"
    /\ loc' = [loc EXCEPT ![w].read_operations = OperationsOf(loc[w].session.id),
                          ![w].resp = [status |-> 200, error |-> << >>]]
    /\ pc' = [pc EXCEPT ![w] = "done"]
    /\ UNCHANGED << db, now, openai_client, provider_calls, nreq >>

(* ----------------------------- chat_session ---------------------------- *)
\* views.py:46-50 without session_id: a ChatSession row is inserted and the
\* browser is redirected to its page.
ChatSessionNew(w, user) ==
    /\ Free(w)
    /\ nreq < MaxRequests
    /\ Len(sessions) < MaxSessions
    /\ nreq' = nreq + 1
    /\ LET session == NewSession(Len(sessions) + 1, user, now)
       IN /\ sessions' = Append(sessions, session)
          /\ loc' = [loc EXCEPT ![w] =
                [IdleLocals EXCEPT !.kind = "new_chat", !.call = nreq + 1,
                                   !.user = user, !.session = session,
                                   !.resp = [status |-> 302, error |-> << >>]]]
    /\ now' = now + 1
    /\ pc' = [pc EXCEPT ![w] = "done"]
    /\ UNCHANGED << messages, operations, preferences, openai_client,
                    provider_calls >>

\* views.py:46-47 with session_id; get_object_or_404 is outside any handler:
\* HTTP 404.
ChatSessionBegin(w, user, sid) ==
    /\ Free(w)
    /\ nreq < MaxRequests
    /\ nreq' = nreq + 1
    /\ LET base == [IdleLocals EXCEPT !.kind = "chat", !.call = nreq + 1,
                                      !.user = user, !.session_id = sid]
       IN IF ~SessionFound(sid, user)
          THEN /\ pc' = [pc EXCEPT ![w] = "done"]
               /\ loc' = [loc EXCEPT ![w] =
                     [base EXCEPT !.resp = [status |-> 404, error |-> Http404Text]]]
          ELSE /\ pc' = [pc EXCEPT ![w] = "chat_prefs"]
               /\ loc' = [loc EXCEPT ![w] = [base EXCEPT !.session = sessions[sid]]]
    /\ UNCHANGED << db, now, openai_client, provider_calls >>

\* views.py:52-61: the messages query is built and not run by the view;
\* the preferences row of the user is fetched or created.
ChatSessionGetPreferences(w) ==
    /\ pc[w] = "chat_prefs"
    /\ preferences' = GetOrCreatePreferences(loc[w].user)
    /\ loc' = [loc EXCEPT ![w].preferences = preferences'[loc[w].user],
                          ![w].resp = [status |-> 200, error |-> << >>]]
    /\ pc' = [pc EXCEPT ![w] = "done"]
    /\ UNCHANGED << sessions, messages, operations, now, openai_client,
                    provider_calls, nreq >>

(* ------------------------ a stored conversation ------------------------ *)
\* Row i of a conversation of session 1 that earlier send_message requests
\* stored: user and assistant messages alternate; some assistant messages
\* ended in 'error' (services.py:199-201) and some are still 'processing'
\* (services.py:177); rows 1 and 2, 6 and 7, 13 and 14, ... were inserted
\* within the same clock reading.
PreloadStatus(i) ==
    IF i % 2 = 1 THEN "completed"
    ELSE IF i % 12 = 0 THEN "processing"
    ELSE IF i % 8 = 0 THEN "error" ELSE "completed"

PreloadTime(i) == 1 + (IF i % 7 = 0 \/ i = 2 THEN i - 1 ELSE i)

PreloadError == << "q", "u", "o", "t", "a" >>

PreloadRow(i) ==
    LET status == PreloadStatus(i)
        blank == NewMessage(i, 1, IF i % 2 = 1 THEN "user" ELSE "assistant",
                            << >>, status, PreloadTime(i), 0)
    IN IF i % 2 = 1 THEN [blank EXCEPT !.content = << "q" >> \o IntStr(i)]
       ELSE IF status = "completed"
            THEN [blank EXCEPT !.content = << "a" >> \o IntStr(i),
                               !.model_used = "gpt-3.5-turbo", !.tokens_used = 9]
       ELSE IF status = "error"
            THEN [blank EXCEPT !.content = ErrGenPrefix \o PreloadError,
                               !.error_message = PreloadError]
       ELSE blank

\* Sizes of the stored conversation: with the message a request adds, the
\* completed rows number fewer than, exactly and more than HistoryLimit.
PreloadSizes == {0, MaxPreload - 3, MaxPreload - 2, MaxPreload}

HistTexts == { << "h", "i" >> } \cup LongTexts

InitHist ==
    /\ \E n \in PreloadSizes :
          /\ messages = [i \in 1..n |-> PreloadRow(i)]
          /\ now = n + 2
          /\ sessions = [s \in SessionIds |->
                IF s = 1 /\ n > 0
                THEN [NewSession(1, "u1", n + 1) EXCEPT
                         !.title = TitleFor(PreloadRow(1).content)]
                ELSE NewSession(s, IF s = 1 THEN "u1" ELSE "u2", s - 1)]
    /\ operations = << >>
    /\ \E d \in Deployments :
          /\ openai_client = d.openai_client
          /\ preferences = d.preferences
    /\ provider_calls = 0
    /\ nreq = 0
    /\ pc = [w \in Workers |-> "idle"]
    /\ loc = [w \in Workers |-> IdleLocals]

(* --------------------------- specifications ---------------------------- *)
\* The steps of send_message after the request was accepted.
SendSteps(w) ==
    \/ SendGetPreferences(w)
    \/ CreateUserMessage(w)
    \/ CreateAssistantMessage(w)
    \/ Generate(w)
    \/ SaveAssistantMessage(w)
    \/ SaveSession(w)
    \/ HandleException(w)

\* Chat: u1 sends messages to its own session 1 and to the foreign session 2.
Next ==
    \/ \E w \in Workers, sid \in SessionIds, text \in UserTexts :
          SendBegin(w, "u1", sid, text)
    \/ \E w \in Workers : SendSteps(w)

Spec == Init /\ [][Next]_vars

\* Tools: u1 calls tools on its own session 1 and on the foreign session 2.
NextTool ==
    \/ \E w \in Workers, sid \in SessionIds, tool_name \in ToolNames,
          arguments \in ToolArguments :
          ToolBegin(w, "u1", sid, tool_name, arguments)
    \/ \E w \in Workers : ToolCreateMessage(w)
    \/ \E w \in Workers : ToolCreateOperation(w)
    \/ \E w \in Workers : ToolCall(w)
    \/ \E w \in Workers : ToolSaveOperation(w)
    \/ \E w \in Workers : ToolHandleException(w)
    \/ \E w \in Workers : ToolUpdateMessage(w)

\* The completion provider plays no part in a tool call: one deployment.
InitTool == Init /\ openai_client /\ preferences = << >>

SpecTool == InitTool /\ [][NextTool]_vars

\* Preferences: requests of both users, two at a time.
NextPrefs ==
    \/ \E w \in Workers, user \in Users, data \in PreferenceUpdates :
          PreferencesBegin(w, user, data)
    \/ \E w \in Workers : PreferencesSave(w)
    \/ \E w \in Workers, user \in Users, sid \in SessionIds :
          ChatSessionBegin(w, user, sid)
    \/ \E w \in Workers : ChatSessionGetPreferences(w)

SpecPrefs == Init /\ [][NextPrefs]_vars

\* History: u1 sends messages, one after the other, to session 1, which
\* already holds a conversation.
NextHist ==
    \/ \E text \in HistTexts : SendBegin("w1", "u1", 1, text)
    \/ SendSteps("w1")

SpecHist == InitHist /\ [][NextHist]_vars

\* The steps of call_mcp_tool after the request was accepted.
ToolSteps(w) ==
    \/ ToolCreateMessage(w)
    \/ ToolCreateOperation(w)
    \/ ToolCall(w)
    \/ ToolSaveOperation(w)
    \/ ToolHandleException(w)
    \/ ToolUpdateMessage(w)

\* Messages: u1 sends messages and calls tools on its session 1.
MsgTexts == { << "h", "i" >> }

NextMsg ==
    \/ \E w \in Workers, text \in MsgTexts : SendBegin(w, "u1", 1, text)
    \/ \E w \in Workers : SendSteps(w)
    \/ \E w \in Workers, arguments \in ToolArguments :
          ToolBegin(w, "u1", 1, "kv_get", arguments)
    \/ \E w \in Workers : ToolSteps(w)

SpecMsg == InitTool /\ [][NextMsg]_vars

\* Deletion: u1 sends messages to its session 1 and deletes sessions.
NextDelete ==
    \/ \E w \in Workers, text \in MsgTexts : SendBegin(w, "u1", 1, text)
    \/ \E w \in Workers : SendSteps(w)
    \/ \E w \in Workers, sid \in SessionIds : DeleteBegin(w, "u1", sid)
    \/ \E w \in Workers : DeleteSave(w)

SpecDelete == Init /\ [][NextDelete]_vars

\* Ownership: both users call every endpoint on both sessions; worker w1
\* serves the requests of u1 and worker w2 those of u2.
UserOf(w) == IF w = "w1" THEN "u1" ELSE "u2"

\* The session ids a request may name: those of the stored sessions and those
\* of the sessions chat_session may still create.
OwnSessionIds == 1..MaxSessions

NextOwn ==
    \/ \E w \in Workers, sid \in OwnSessionIds, text \in MsgTexts :
          SendBegin(w, UserOf(w), sid, text)
    \/ \E w \in Workers : SendSteps(w)
    \/ \E w \in Workers, sid \in OwnSessionIds :
          ToolBegin(w, UserOf(w), sid, "kv_get", EmptyDict)
    \/ \E w \in Workers : ToolSteps(w)
    \/ \E w \in Workers, sid \in OwnSessionIds : DeleteBegin(w, UserOf(w), sid)
    \/ \E w \in Workers : DeleteSave(w)
    \/ \E w \in Workers, sid \in OwnSessionIds : SessionHistory(w, UserOf(w), sid)
    \/ \E w \in Workers : SessionHistoryMessages(w)
    \/ \E w \in Workers : SessionHistoryTitle(w)
    \/ \E w \in Workers, sid \in OwnSessionIds : SessionOperations(w, UserOf(w), sid)
    \/ \E w \in Workers : SessionOperationsRead(w)
    \/ \E w \in Workers, data \in OwnUpdates :
          PreferencesBegin(w, UserOf(w), data)
    \/ \E w \in Workers : PreferencesSave(w)
    \/ \E w \in Workers : ChatSessionNew(w, UserOf(w))
    \/ \E w \in Workers, sid \in OwnSessionIds : ChatSessionBegin(w, UserOf(w), sid)
    \/ \E w \in Workers : ChatSessionGetPreferences(w)

SpecOwn == InitTool /\ [][NextOwn]_vars

(* ------------------------------- claims -------------------------------- *)
\* The ids of the messages a request inserted, by role.
CreatedBy(call, role) ==
    { i \in 1..Len(messages) :
        messages[i].call = call /\ messages[i].role = role }

\* The ids of the MCPOperation rows a request inserted.
OperationsBy(call) ==
    { i \in 1..Len(operations) : operations[i].call = call }

\* process_message has returned to send_message, which has answered.
SendReturned(w) ==
    pc[w] = "done" /\ loc[w].kind = "send" /\ loc[w].assistant_msg.id # 0

\* The text is empty or consists of whitespace only.
IsBlank(t) == \A i \in 1..Len(t) : t[i] \in Whitespace

\* C1: when process_message has returned, the call has inserted exactly one
\* 'user' and exactly one 'assistant' message into the session (and no
\* other), and the stored assistant message is 'completed' or 'error',
\* whatever the provider returned or raised.
C1_OnePairTerminal ==
    \A w \in Workers :
        SendReturned(w) =>
            /\ Cardinality(CreatedBy(loc[w].call, "user")) = 1
            /\ Cardinality(CreatedBy(loc[w].call, "assistant")) = 1
            /\ CreatedBy(loc[w].call, "system") = {}
            /\ \A i \in CreatedBy(loc[w].call, "user")
                        \cup CreatedBy(loc[w].call, "assistant") :
                  messages[i].session = loc[w].session_id
            /\ messages[loc[w].assistant_msg.id].role = "assistant"
            /\ messages[loc[w].assistant_msg.id].status \in {"completed", "error"}

\* C1 witness: a call has returned after the provider raised.
C1_Witness ==
    \E w \in Workers :
        /\ SendReturned(w)
        /\ loc[w].e = << KeyErrorMessage >>
        /\ messages[loc[w].assistant_msg.id].status = "error"

\* C2: when the provider's result has success = false with error text E, the
\* assistant message returned and stored has status 'error', error_message E
\* and content "Error generating response: " followed by E.
C2_ProviderFailureStored ==
    \A w \in Workers :
        ( /\ SendReturned(w)
          /\ loc[w].ai_response # << >>
          /\ ~loc[w].ai_response[1].success )
        => LET E == loc[w].ai_response[1].error
               stored == messages[loc[w].assistant_msg.id]
           IN /\ stored.status = "error"
              /\ stored.error_message = E
              /\ stored.content = ErrGenPrefix \o E
              /\ loc[w].assistant_msg = stored

\* C2 witness: a call has returned after the provider reported a failure
\* with a non-empty error text.
C2_Witness ==
    \E w \in Workers :
        /\ SendReturned(w)
        /\ loc[w].ai_response # << >>
        /\ ~loc[w].ai_response[1].success
        /\ loc[w].ai_response[1].error # << >>
        /\ messages[loc[w].assistant_msg.id].status = "error"

\* The context ctx, built from the rows recent of the table msgs, is the
\* system message followed by at most HistoryLimit completed messages of the
\* session sid, the most recent ones, in non-decreasing timestamp order.
ContextOk(ctx, recent, msgs, sid) ==
    LET completed == { i \in 1..Len(msgs) :
                         msgs[i].session = sid /\ msgs[i].status = "completed" }
        chosen == { recent[k] : k \in 1..Len(recent) }
    IN /\ Len(ctx) = Len(recent) + 1
       /\ ctx[1] = [role |-> "system", content |-> SystemPrompt]
       /\ Len(recent) <= HistoryLimit
       /\ chosen \subseteq completed
       /\ Cardinality(chosen) = Len(recent)
       /\ \A k \in 1..Len(recent) :
             ctx[k + 1] = [role |-> msgs[recent[k]].role,
                           content |-> msgs[recent[k]].content]
       /\ \A k \in 1..(Len(recent) - 1) :
             msgs[recent[k]].timestamp <= msgs[recent[k + 1]].timestamp
       /\ \A i \in completed \ chosen :
             /\ Len(recent) = HistoryLimit
             /\ \A j \in chosen : msgs[i].timestamp <= msgs[j].timestamp

\* C3: the list a process_message call hands to the provider is the fixed
\* system message followed by at most 20 messages of the session, all
\* 'completed', the most recent ones, in chronological order.
C3_ContextBounded ==
    [][ \A w \in Workers :
          (pc[w] = "generate" /\ pc'[w] # "generate")
          => ContextOk(loc'[w].messages, loc'[w].recent_messages, messages,
                       loc[w].session_id) ]_vars

\* C3 witness: a context of 20 messages was built for a session that holds
\* more than 20 completed messages and others that are not completed.
C3_Witness ==
    \E w \in Workers :
        /\ pc[w] \in {"save_assistant", "except"}
        /\ Len(loc[w].recent_messages) = HistoryLimit
        /\ Cardinality(CompletedOf(loc[w].session_id)) > HistoryLimit
        /\ \E i \in 1..Len(messages) :
              messages[i].session = loc[w].session_id
              /\ messages[i].status = "error"

\* C4 (as claimed): when a call of ChatService.call_mcp_tool has ended, it
\* has stored exactly one MCPOperation row, whose status is 'success' if the
\* bridge returned success = true and no exception occurred, and 'error'
\* otherwise.
C4_OneRowStatusIffSuccess ==
    \A w \in Workers :
        ( /\ loc[w].kind = "tool"
          /\ pc[w] \in {"tool_update", "done"}
          /\ loc[w].system_message.id # 0 )
        => /\ Cardinality(OperationsBy(loc[w].call)) = 1
           /\ \A i \in OperationsBy(loc[w].call) :
                 operations[i].status =
                    IF /\ loc[w].result # << >>
                       /\ loc[w].result[1].success
                       /\ loc[w].e = << >>
                    THEN "success" ELSE "error"

\* C5 (as claimed): a stored title that is not empty never changes.
C5_TitleNeverOverwritten ==
    [][ \A s \in DOMAIN sessions :
          sessions[s].title # << >> => sessions'[s].title = sessions[s].title ]_vars

\* C6: when an exception was raised in the try block of process_message, the
\* assistant message is stored with status 'error' and a non-empty
\* error_message once the call has returned.
C6_ExceptionFinalized ==
    \A w \in Workers :
        (SendReturned(w) /\ loc[w].e # << >>)
        => /\ messages[loc[w].assistant_msg.id].status = "error"
           /\ messages[loc[w].assistant_msg.id].error_message # << >>
           /\ messages[loc[w].assistant_msg.id].error_message = loc[w].e[1]

\* C6 witness: a call has returned after saving the assistant message
\* raised (the provider's content was None).
C6_Witness ==
    \E w \in Workers :
        /\ SendReturned(w)
        /\ loc[w].e = << NotNullContent >>
        /\ loc[w].ai_response # << >>
        /\ loc[w].ai_response[1].content = NoneText

\* C7: a send_message request with an empty or whitespace-only text is
\* answered at once and stores nothing: no row of any table is created or
\* changed and the provider is not called; on a session of the requester the
\* answer is HTTP 400.
C7_BlankRejected ==
    [][ \A w \in Workers :
          ( /\ nreq' = nreq + 1
            /\ loc'[w].call = nreq'
            /\ loc'[w].kind = "send"
            /\ IsBlank(loc'[w].text) )
          => /\ pc'[w] = "done"
             /\ sessions' = sessions
             /\ messages' = messages
             /\ operations' = operations
             /\ preferences' = preferences
             /\ provider_calls' = provider_calls
             /\ ( sessions[loc'[w].session_id].user = loc'[w].user
                  => loc'[w].resp.status = 400 ) ]_vars

\* C7 witness: a whitespace-only text was rejected with HTTP 400.
C7_Witness ==
    \E w \in Workers :
        /\ pc[w] = "done"
        /\ loc[w].kind = "send"
        /\ loc[w].text = << " ", "\r" >>
        /\ loc[w].resp.status = 400

\* C8: when MCPClient.call_tool reports a failure, the MCPOperation row
\* stored by call_mcp_tool has status 'error', error_details equal to the
\* reported error and not empty, and response {}.
C8_BridgeFailureStored ==
    \A w \in Workers :
        ( /\ loc[w].kind = "tool"
          /\ pc[w] \in {"tool_update", "done"}
          /\ loc[w].result # << >>
          /\ ~loc[w].result[1].success )
        => LET stored == operations[loc[w].operation.id]
           IN /\ stored.status = "error"
              /\ stored.error_details = loc[w].result[1].error
              /\ stored.error_details # << >>
              /\ stored.response = EmptyDict

\* C8 witness: a tool call has ended after the tool server could not be
\* reached.
C8_Witness ==
    \E w \in Workers :
        /\ loc[w].kind = "tool"
        /\ pc[w] = "done"
        /\ loc[w].result # << >>
        /\ ~loc[w].result[1].success
        /\ loc[w].result[1].error = << "r", "e", "f", "u", "s", "e", "d" >>
        /\ operations[loc[w].operation.id].status = "error"

\* C9 (as claimed): the save of an update_preferences request changes no
\* stored field that the request did not name.
C9_OnlyNamedFieldsChange ==
    [][ \A w \in Workers :
          (pc[w] = "prefs_save" /\ pc'[w] = "done")
          => \A f \in PreferenceFields \ loc[w].data.keys :
                Field(preferences'[loc[w].user], f)
                   = Field(preferences[loc[w].user], f) ]_vars

\* C10 (as claimed): when a request that appended messages to a session has
\* ended, the session's updated_at is not older than those messages.
C10_AppendUpdatesSession ==
    \A w \in Workers :
        pc[w] = "done"
        => \A i \in 1..Len(messages) :
              messages[i].call = loc[w].call
              => sessions[messages[i].session].updated_at >= messages[i].timestamp

\* The stored message old became new by finalizing an in-flight message whose
\* role is one of roles: only content, status, model, token count and error
\* text differ, the old status is 'processing' and the new one is terminal.
Finalized(old, new, roles) ==
    /\ old.role \in roles
    /\ old.status = "processing"
    /\ new.status \in {"completed", "error"}
    /\ new.id = old.id
    /\ new.session = old.session
    /\ new.role = old.role
    /\ new.timestamp = old.timestamp
    /\ new.call = old.call

\* C11 (as claimed): a stored message changes only when it is an assistant
\* message in 'processing' that is moved to a terminal status; user and
\* system messages and messages already 'completed' or 'error' never change.
C11_OnlyAssistantFinalized ==
    [][ /\ Len(messages') >= Len(messages)
        /\ \A i \in 1..Len(messages) :
              messages'[i] # messages[i]
              => Finalized(messages[i], messages'[i], {"assistant"}) ]_vars

\* C11 (amended): a stored message changes only when it is an assistant or
\* system message in 'processing' that is moved to a terminal status; user
\* messages and messages already 'completed' or 'error' never change.
C11_OnlyInFlightFinalized ==
    [][ /\ Len(messages') >= Len(messages)
        /\ \A i \in 1..Len(messages) :
              messages'[i] # messages[i]
              => Finalized(messages[i], messages'[i], {"assistant", "system"}) ]_vars

\* C11 witness: an assistant message was finalized by the exception handler
\* and the system message of a tool call was finalized by the view.
C11_Witness ==
    /\ \E i \in 1..Len(messages) :
          /\ messages[i].role = "assistant"
          /\ messages[i].status = "error"
          /\ messages[i].error_message = NotNullContent
    /\ \E i \in 1..Len(messages) :
          /\ messages[i].role = "system"
          /\ messages[i].status \in {"completed", "error"}

\* C12 (as claimed): when a call_mcp_tool request with a tool name has
\* finished, with any response, the system message it created is stored as
\* 'completed' if the operation's status is 'success' and as 'error'
\* otherwise, never as 'processing'.
C12_SystemMessageTerminal ==
    \A w \in Workers :
        ( /\ loc[w].kind = "tool"
          /\ pc[w] = "done"
          /\ loc[w].system_message.id # 0 )
        => messages[loc[w].system_message.id].status =
              IF /\ loc[w].operation.id # 0
                 /\ loc[w].operation.status = "success"
              THEN "completed" ELSE "error"

\* C13 (as claimed): a session whose is_active is false never becomes active
\* again.
C13_DeletionPermanent ==
    [][ \A s \in DOMAIN sessions :
          ~sessions[s].is_active => ~sessions'[s].is_active ]_vars

\* C14: with no concurrent writer on the session, the last entry of the
\* context a process_message call hands to the provider is the user message
\* the call has just stored: role 'user', content the submitted text.
C14_ContextEndsWithUserMessage ==
    [][ \A w \in Workers :
          (pc[w] = "generate" /\ pc'[w] # "generate")
          => LET ctx == loc'[w].messages
                 recent == loc'[w].recent_messages
             IN /\ Len(recent) >= 1
                /\ recent[Len(recent)] = loc[w].user_msg
                /\ ctx[Len(ctx)] = [role |-> "user",
                                    content |-> loc[w].user_message] ]_vars

\* C14 witness: the session holds more than 20 completed messages and the
\* context of 20 messages ends with the long text just submitted.
C14_Witness ==
    \E w \in Workers :
        /\ pc[w] \in {"save_assistant", "except", "save_session", "done"}
        /\ loc[w].user_message \in LongTexts
        /\ Len(loc[w].recent_messages) = HistoryLimit
        /\ loc[w].recent_messages[HistoryLimit] = loc[w].user_msg
        /\ Cardinality(CompletedOf(loc[w].session_id)) > HistoryLimit
        /\ loc[w].messages[HistoryLimit + 1].content = loc[w].user_message

\* The step of worker w, made for user u, creates and changes only rows that
\* u owns and leaves in the locals of w only rows that u owns.
StepWithinOwner(w, u) ==
    /\ \A s \in DOMAIN sessions' :
          (s \notin DOMAIN sessions \/ sessions'[s] # sessions[s])
          => sessions'[s].user = u /\ (s \in DOMAIN sessions => sessions[s].user = u)
    /\ Len(messages') >= Len(messages)
    /\ \A i \in 1..Len(messages') :
          (i > Len(messages) \/ messages'[i] # messages[i])
          => sessions[messages'[i].session].user = u
    /\ Len(operations') >= Len(operations)
    /\ \A i \in 1..Len(operations') :
          (i > Len(operations) \/ operations'[i] # operations[i])
          => sessions[messages'[operations'[i].message].session].user = u
    /\ \A x \in DOMAIN preferences' :
          (x \notin DOMAIN preferences \/ preferences'[x] # preferences[x])
          => x = u
    /\ loc'[w].session.id # 0 => loc'[w].session.user = u
    /\ loc'[w].preferences.user \in {"", u}
    /\ \A i \in loc'[w].read_messages : sessions[messages[i].session].user = u
    /\ \A i \in loc'[w].read_operations :
          sessions[messages[operations[i].message].session].user = u
    /\ \A k \in 1..Len(loc'[w].recent_messages) :
          sessions[messages[loc'[w].recent_messages[k]].session].user = u

\* The step of worker w receives a request of user u on a session of another
\* user: it ends the request with 'not found' and stores nothing.
ForeignRejected(w, u) ==
    ( /\ loc'[w].call # loc[w].call
      /\ loc'[w].session_id \in DOMAIN sessions
      /\ sessions[loc'[w].session_id].user # u )
    => /\ pc'[w] = "done"
       /\ loc'[w].resp.status \in {404, 500}
       /\ loc'[w].resp.error = Http404Text
       /\ loc'[w].read_messages = {}
       /\ loc'[w].read_operations = {}
       /\ sessions' = sessions
       /\ messages' = messages
       /\ operations' = operations
       /\ preferences' = preferences

\* C15: every step of a request of user U (send_message, session_history,
\* session_operations, call_mcp_tool, delete_session, update_preferences)
\* reads and writes only sessions, messages, operations and preferences of
\* U; on a session of another user the request fails with 'not found' and no
\* row is created or changed.
C15_OwnershipIsolation ==
    [][ \A w \in Workers :
          (pc'[w] # pc[w] \/ loc'[w] # loc[w])
          => /\ StepWithinOwner(w, loc'[w].user)
             /\ ForeignRejected(w, loc'[w].user) ]_vars

\* C15 witness: a tool call of one user on the session of the other user,
\* which holds messages, was answered with 'not found'.
C15_Witness ==
    \E w \in Workers :
        /\ pc[w] = "done"
        /\ loc[w].kind = "tool"
        /\ loc[w].session_id \in DOMAIN sessions
        /\ sessions[loc[w].session_id].user # loc[w].user
        /\ loc[w].resp.error = Http404Text
        /\ MessagesOf(loc[w].session_id) # {}
====
